---------------------------- MODULE Spec2Model ----------------------------
(***************************************************************************)
(* WooCommerce -> Odoo order synchronisation (Supabase edge function       *)
(* supabase/functions/sync-orders/index.ts).                               *)
(*                                                                         *)
(* The model covers the OdooClient session, the get-or-create resolution   *)
(* of customers and products, syncOrder and the serve handler.  The Odoo   *)
(* database is three tables (res.partner, product.product, sale.order)     *)
(* whose record id is the position in the table.  Every await on a remote  *)
(* call is one step of a run; the code between two awaits is part of the   *)
(* step that follows the first one.  Log output is not modelled.  Prices   *)
(* and quantities are fixed-point numbers counted in hundredths.           *)
(***************************************************************************)
EXTENDS Integers, Sequences, FiniteSets, TLC

(***************************************************************************)
(* Bounds of the model.                                                    *)
(***************************************************************************)
MaxBatch == 2          \* longest order batch returned by the storefront
MaxFaults == 1         \* search/create requests the ERP fails to answer
MaxOverlapBatch == 1   \* longest batch when invocations overlap
MaxOverlapFaults == 0  \* requests the ERP fails to answer when they overlap
MaxClientCalls == 3    \* method calls on OdooClient objects used on their own

Runs == {1, 2}         \* isolates an invocation of the handler may run in

(***************************************************************************)
(* JavaScript values.                                                      *)
(***************************************************************************)
Undefined == "undefined"     \* a missing field
Null == "null"               \* sessionId before authentication
NaN == [nan |-> TRUE, val |-> 0]
Num(v) == [nan |-> FALSE, val |-> v]

Whitespace == {" ", "\t", "\n"}
Digits == "0123456789"

Ch(s, i) == SubSeq(s, i, i)
Max(a, b) == IF a >= b THEN a ELSE b
Min(a, b) == IF a <= b THEN a ELSE b

\* (x || "") on a string field
OrEmpty(v) == IF v = Undefined THEN "" ELSE v

\* String.prototype.trim
RECURSIVE LTrim(_)
LTrim(s) == IF Len(s) > 0 /\ Ch(s, 1) \in Whitespace THEN LTrim(Tail(s)) ELSE s
RECURSIVE RTrim(_)
RTrim(s) ==
    IF Len(s) > 0 /\ Ch(s, Len(s)) \in Whitespace
    THEN RTrim(SubSeq(s, 1, Len(s) - 1)) ELSE s
Trim(s) == RTrim(LTrim(s))

\* String.prototype.substring(0, n)
Substring0(s, n) == SubSeq(s, 1, Min(n, Len(s)))

IsDigit(c) == \E d \in 1..10 : Ch(Digits, d) = c
DigitVal(c) == CHOOSE d \in 0..9 : Ch(Digits, d + 1) = c

\* length of the longest prefix of s made of digits
RECURSIVE DigitRun(_)
DigitRun(s) ==
    IF Len(s) > 0 /\ IsDigit(Ch(s, 1)) THEN 1 + DigitRun(Tail(s)) ELSE 0

\* value of a string of digits
RECURSIVE DigitsValue(_)
DigitsValue(s) ==
    IF Len(s) = 0 THEN 0
    ELSE 10 * DigitsValue(SubSeq(s, 1, Len(s) - 1)) + DigitVal(Ch(s, Len(s)))

\* parseFloat: leading whitespace, an optional sign, digits, an optional
\* fraction; parsing stops at the first character that does not fit, and
\* the result is NaN when no digit was read.  The value is in hundredths
\* (a third and later decimals are dropped; exponents are not modelled).
parseFloat(value) ==
    IF value = Undefined THEN NaN
    ELSE
      LET t == LTrim(value)
          neg == Len(t) > 0 /\ Ch(t, 1) = "-"
          signed == Len(t) > 0 /\ Ch(t, 1) \in {"-", "+"}
          u == IF signed THEN Tail(t) ELSE t
          n == DigitRun(u)
          rest == SubSeq(u, n + 1, Len(u))
          hasDot == Len(rest) > 0 /\ Ch(rest, 1) = "."
          frac == IF hasDot THEN Tail(rest) ELSE ""
          m == IF hasDot THEN DigitRun(frac) ELSE 0
          f2 == SubSeq(frac, 1, Min(m, 2))
          cents == IF Len(f2) = 0 THEN 0
                   ELSE IF Len(f2) = 1 THEN 10 * DigitsValue(f2)
                   ELSE DigitsValue(f2)
          mag == 100 * DigitsValue(SubSeq(u, 1, n)) + cents
      IN IF n = 0 /\ m = 0 THEN NaN
         ELSE Num(IF neg THEN 0 - mag ELSE mag)

isNaN(x) == x.nan

\* /^[^\s@]+@[^\s@]+\.[^\s@]+$/
Plain(s) == Len(s) > 0 /\ \A k \in 1..Len(s) : Ch(s, k) \notin Whitespace \cup {"@"}
isValidEmail(email) ==
    \E i \in 1..Len(email) :
        /\ Ch(email, i) = "@"
        /\ Plain(SubSeq(email, 1, i - 1))
        /\ \E j \in (i + 1)..Len(email) :
              /\ Ch(email, j) = "."
              /\ Plain(SubSeq(email, i + 1, j - 1))
              /\ Plain(SubSeq(email, j + 1, Len(email)))

sanitizePrice(value) ==
    LET price == parseFloat(value)
    IN IF isNaN(price) THEN 0 ELSE Max(0, price.val)

sanitizeQuantity(value) ==
    LET qty == parseFloat(value)
    IN IF isNaN(qty) \/ qty.val <= 0 THEN 100 ELSE qty.val

(***************************************************************************)
(* The storefront's orders (read-only source documents).  A missing field  *)
(* is a field the record does not have.                                    *)
(***************************************************************************)
Has(obj, f) == f \in DOMAIN obj
Get(obj, f) == IF Has(obj, f) THEN obj[f] ELSE Undefined

WooStore ==
    501 :> [id |-> 501,
            billing |-> [email |-> "a@b.com", first_name |-> "Awa", last_name |-> "Diop"],
            line_items |-> << [sku |-> "SKU1", product_id |-> 11, name |-> "Robe",
                               price |-> "10.50", quantity |-> "2"] >>]
 @@ 502 :> [id |-> 502,
            billing |-> [email |-> "bad-email", first_name |-> " ", last_name |-> ""],
            line_items |-> << [sku |-> " ", product_id |-> 0,
                               name |-> "Cool Shirt Extra Large Blue",
                               price |-> "abc", quantity |-> "-1"],
                              [product_id |-> 0,
                               name |-> "Cool Shirt Extra Large Red",
                               price |-> "-3", quantity |-> "x"] >>]
 @@ 503 :> [id |-> 503,
            billing |-> [first_name |-> "Fatou", last_name |-> ""],
            line_items |-> << >>]
 @@ 504 :> [id |-> 504,
            billing |-> [email |-> " a@b.com ", first_name |-> "Awa", last_name |-> "Diop"]]
 @@ 505 :> [id |-> 505,
            line_items |-> << [sku |-> "", product_id |-> 77, name |-> "Pagne",
                               price |-> "5", quantity |-> "1.5"],
                              [sku |-> "", price |-> "1", quantity |-> "1"] >>]

OrderIds == DOMAIN WooStore

Range(q) == {q[i] : i \in DOMAIN q}

\* the orders that may follow the listed ones in a batch
NextOrders(listed) == {id \in OrderIds : \A j \in Range(listed) : id < j}

(***************************************************************************)
(* Deployment configuration (environment variables).                       *)
(***************************************************************************)
Envs ==
    { [WOO_CK |-> "ck", WOO_CS |-> "cs", ODOO_EMAIL |-> "bot@mce.sn", ODOO_PASSWORD |-> "pw"],
      [WOO_CK |-> "ck", WOO_CS |-> "", ODOO_EMAIL |-> "bot@mce.sn", ODOO_PASSWORD |-> "pw"],
      [WOO_CK |-> "ck", WOO_CS |-> "cs", ODOO_EMAIL |-> "bot@mce.sn", ODOO_PASSWORD |-> ""] }

(***************************************************************************)
(* What the ERP may answer to the login handshake.                         *)
(***************************************************************************)
AuthResponses ==
    { [kind |-> "exception"], [kind |-> "error"],
      [kind |-> "result", uid |-> 0, session_id |-> Null, setCookie |-> ""],
      [kind |-> "result", uid |-> 2, session_id |-> Null, setCookie |-> ""],
      [kind |-> "result", uid |-> 2, session_id |-> Null, setCookie |-> "lang=fr_FR; Path=/"],
      [kind |-> "result", uid |-> 2, session_id |-> "sid", setCookie |-> ""],
      [kind |-> "result", uid |-> 2, session_id |-> Null,
       setCookie |-> "session_id=sid; Path=/; HttpOnly"],
      [kind |-> "result", uid |-> 2, session_id |-> "sid-of-body",
       setCookie |-> "session_id=sid; Path=/; HttpOnly"] }

\* outcome of one search_read / create request
RpcOutcomes == {"result", "error", "exception"}

\* outcome of the storefront request
FetchOutcomes == {"exception", "not-ok", "bad-json", "ok"}

VARIABLES
    env,            \* configuration of the deployment
    partners,       \* ERP table res.partner
    products,       \* ERP table product.product
    saleOrders,     \* ERP table sale.order
    pc,             \* position of each invocation of the handler
    odoo,           \* the OdooClient of each invocation: uid, sessionId
    ordersLength,   \* orders.length of the batch fetched from the storefront
    orders,         \* the ids of the batch's orders, up to the one in progress
    idx,            \* position of the order loop in the batch (from 1)
    successCount,
    errorCount,
    frame,          \* locals of syncOrder: partnerId, orderLines, item position
    response,       \* the HTTP response of the invocation
    started,        \* invocations started so far
    calls,          \* history: remote calls issued for the current order
    outcomes,       \* history: how each order of the batch ended
    sent,           \* history: kinds of requests the invocation has sent
    authAnswer,     \* history: what the ERP answered to authenticate
    fetchAnswer,    \* history: what the storefront answered to the fetch
    faults,         \* search/create requests the ERP has failed to answer
    unanswered,     \* history: some search/create got no answer so far
    lostSearch,     \* history: some search got no answer so far
    returned,       \* history: what get-or-create returned for the current order
    synced,         \* history: orders on which syncOrder has already ended
    repeat,         \* history: the current order had been synced before
    raced           \* history: orders two invocations had in flight together

erp == <<partners, products, saleOrders>>
vars == <<env, partners, products, saleOrders, pc, odoo, ordersLength, orders, idx,
          successCount, errorCount, frame, response, started, calls, outcomes,
          sent, authAnswer, fetchAnswer, faults, unanswered, lostSearch, returned,
          synced, repeat, raced>>

NoResponse == [status |-> 0, contentType |-> "", body |-> ""]
NoFrame == [partnerId |-> 0, orderLines |-> << >>, li |-> 0]
NoClient == [uid |-> 0, sessionId |-> Null]   \* uid 0 stands for null

Init ==
    /\ env \in Envs
    /\ partners = << >>
    /\ products = << >>
    /\ saleOrders = << >>
    /\ pc = [r \in Runs |-> "idle"]
    /\ odoo = [r \in Runs |-> NoClient]
    /\ ordersLength = [r \in Runs |-> 0]
    /\ orders = [r \in Runs |-> << >>]
    /\ idx = [r \in Runs |-> 0]
    /\ successCount = [r \in Runs |-> 0]
    /\ errorCount = [r \in Runs |-> 0]
    /\ frame = [r \in Runs |-> NoFrame]
    /\ response = [r \in Runs |-> NoResponse]
    /\ started = 0
    /\ calls = [r \in Runs |-> << >>]
    /\ outcomes = [r \in Runs |-> << >>]
    /\ sent = [r \in Runs |-> {}]
    /\ authAnswer = [r \in Runs |-> "none"]
    /\ fetchAnswer = [r \in Runs |-> "none"]
    /\ faults = 0
    /\ unanswered = FALSE
    /\ lostSearch = FALSE
    /\ returned = [r \in Runs |-> << >>]
    /\ synced = {}
    /\ repeat = [r \in Runs |-> FALSE]
    /\ raced = {}

(***************************************************************************)
(* The ERP's RPC surface: search_read (fields = [id], limit = 1) and       *)
(* create.                                                                 *)
(***************************************************************************)
SearchRead(table, field, value) ==
    LET hits == {i \in 1..Len(table) : table[i][field] = value}
    IN IF hits = {} THEN << >>
       ELSE << [id |-> CHOOSE i \in hits : \A j \in hits : i <= j] >>

Matching(table, field, value) ==
    Cardinality({i \in 1..Len(table) : table[i][field] = value})

(***************************************************************************)
(* OdooClient                                                              *)
(***************************************************************************)
\* setCookie.match(/session_id=([^;]+)/): the captured group, or Null
MatchSessionId(setCookie) ==
    LET key == "session_id="
        n == Len(setCookie)
        Capture(p) ==
            LET from == p + Len(key)
                stops == {k \in from..n : Ch(setCookie, k) = ";"}
                to == IF stops = {} THEN n
                      ELSE (CHOOSE k \in stops : \A j \in stops : k <= j) - 1
            IN SubSeq(setCookie, from, to)
        starts == {p \in 1..n : /\ SubSeq(setCookie, p, Min(n, p + Len(key) - 1)) = key
                                /\ Len(Capture(p)) > 0}
    IN IF starts = {} THEN Null
       ELSE Capture(CHOOSE p \in starts : \A q \in starts : p <= q)

\* authenticate() without its final throw for a result that has no uid
AuthAccepted_AnyResult(data) == data.kind = "result"

\* authenticate() returns true exactly for a response that carries no error
\* and a truthy result.uid; every other response makes it throw
AuthAccepted(data) == data.kind = "result" /\ data.uid # 0

\* the client's fields after authenticate() has received data
Authenticated(client, data) ==
    LET fromBody == IF data.session_id # Null THEN data.session_id ELSE client.sessionId
        fromCookie == IF data.setCookie # "" THEN MatchSessionId(data.setCookie) ELSE Null
    IN [uid |-> data.uid,
        sessionId |-> IF fromCookie # Null THEN fromCookie ELSE fromBody]

\* a client that never refuses a call
NotAuthenticated_Never(client) == FALSE

\* search() and create() throw before sending anything without a sessionId
NotAuthenticated(client) == client.sessionId = Null

\* a search that never finds anything
SearchResult_Blind(table, field, value, ans) == << >>

\* what search() returns for an ERP answer
SearchResult(table, field, value, ans) ==
    IF ans = "result" THEN SearchRead(table, field, value) ELSE << >>

\* the id create() returns for an ERP answer (0 stands for null)
CreateResult(table, ans) == IF ans = "result" THEN Len(table) + 1 ELSE 0

\* a create that writes over the newest record of the table
Created_Overwriting(table, values, ans) ==
    IF ans # "result" THEN table
    ELSE IF Len(table) = 0 THEN <<values>>
    ELSE [table EXCEPT ![Len(table)] = values]

\* the table after create(): a failed create adds nothing
Created(table, values, ans) == IF ans = "result" THEN Append(table, values) ELSE table

(***************************************************************************)
(* getOrCreateCustomer                                                     *)
(***************************************************************************)
Billing(order) == IF Has(order, "billing") THEN order.billing ELSE << >>

CustomerEmail(order) ==
    LET email == Trim(OrEmpty(Get(Billing(order), "email")))
    IN IF email = "" \/ ~isValidEmail(email)
       THEN "no-email-wc" \o ToString(order.id) \o "@placeholder.local"
       ELSE email

CustomerName(order) ==
    LET firstName == Trim(OrEmpty(Get(Billing(order), "first_name")))
        lastName == Trim(OrEmpty(Get(Billing(order), "last_name")))
        fullName == Trim(firstName \o " " \o lastName)
    IN IF fullName = "" THEN "Client WooCommerce #" \o ToString(order.id)
       ELSE fullName

\* a customer record that does not keep the email it was searched by
CustomerValues_Anonymous(order) ==
    [name |-> CustomerName(order), email |-> "",
     country_id |-> 195, customer_rank |-> 1]

\* phone, street, city and zip are copied the same way and left out here
CustomerValues(order) ==
    [name |-> CustomerName(order), email |-> CustomerEmail(order),
     country_id |-> 195, customer_rank |-> 1]

(***************************************************************************)
(* getOrCreateProduct                                                      *)
(***************************************************************************)
\* item.name.substring throws a TypeError when the item has no sku, no
\* product_id and no name
NoProductId(item) == ~Has(item, "product_id") \/ item.product_id = 0

SkuThrows(item) ==
    /\ Trim(OrEmpty(Get(item, "sku"))) = ""
    /\ NoProductId(item)
    /\ ~Has(item, "name")

ProductSku(item) ==
    LET sku == Trim(OrEmpty(Get(item, "sku")))
    IN IF sku # "" THEN sku
       ELSE IF ~NoProductId(item)
            THEN "WC-" \o ToString(item.product_id)
            ELSE "WC-" \o Substring0(item.name, 20)

ProductValues(item) ==
    [name |-> IF OrEmpty(Get(item, "name")) = "" THEN "Produit sans nom" ELSE item.name,
     list_price |-> sanitizePrice(Get(item, "price")),
     default_code |-> ProductSku(item),
     type |-> "consu", sale_ok |-> TRUE]

(***************************************************************************)
(* syncOrder                                                               *)
(***************************************************************************)
\* the provenance tag without its prefix
originTag_NoPrefix(wcId) == ToString(wcId)

originTag(wcId) == "WC-" \o ToString(wcId)

\* the idempotency check without its early return
AlreadyImported_Never(existing) == FALSE

\* existing && existing.length > 0
AlreadyImported(existing) == Len(existing) > 0

\* a length test that never holds
isEmpty_Never(list) == Len(list) < 0

\* list.length === 0, the test of both line checks
isEmpty(list) == Len(list) = 0

\* !order.line_items || order.line_items.length === 0
NoLineItems(order) == ~Has(order, "line_items") \/ isEmpty(order.line_items)

LineData(item, productId) ==
    [product_id |-> productId,
     name |-> IF OrEmpty(Get(item, "name")) = "" THEN "Article" ELSE item.name,
     product_uom_qty |-> sanitizeQuantity(Get(item, "quantity")),
     price_unit |-> sanitizePrice(Get(item, "price"))]

\* an order record that is created confirmed
OrderValues_Confirmed(order, partnerId, orderLines) ==
    [partner_id |-> partnerId, origin |-> originTag(order.id),
     client_order_ref |-> ToString(order.id), state |-> "sale",
     order_line |-> orderLines]

\* the order date is left out: no other field depends on it
OrderValues(order, partnerId, orderLines) ==
    [partner_id |-> partnerId, origin |-> originTag(order.id),
     client_order_ref |-> ToString(order.id), state |-> "draft",
     order_line |-> orderLines]

\* a syncOrder that returns how the order ended
SyncOrderResult_Tagged(tag) == tag

\* syncOrder has no return statement with a value
SyncOrderResult(tag) == Undefined

(***************************************************************************)
(* serve handler                                                           *)
(***************************************************************************)
TextResponse(status, text) ==
    [status |-> status, contentType |-> "text/plain", body |-> text]

\* a summary whose total is the number of successes
Summary_TotalOfSuccesses(count, processed, errors) ==
    [status |-> 200, contentType |-> "application/json",
     body |-> [status |-> "completed", total |-> processed,
               processed |-> processed, errors |-> errors]]

Summary(count, processed, errors) ==
    [status |-> 200, contentType |-> "application/json",
     body |-> [status |-> "completed", total |-> count,
               processed |-> processed, errors |-> errors]]

Idle(r) == pc[r] \in {"idle", "done"}
Order(r) == WooStore[orders[r][idx[r]]]
InFlight == {"customer", "customerCreate", "product", "productCreate", "orderCreate"}

\* the answers the ERP may still give to a search or create
Answers(maxFaults) == IF faults < maxFaults THEN RpcOutcomes ELSE {"result"}

\* bookkeeping of one answer
Answer(ans) ==
    /\ faults' = IF ans = "result" THEN faults ELSE faults + 1
    /\ unanswered' = (unanswered \/ ans # "result")

\* bookkeeping of the answer to a search
Searched(ans) == lostSearch' = (lostSearch \/ ans # "result")

\* bookkeeping of what getOrCreateCustomer (item 0) or getOrCreateProduct
\* has returned (0 stands for null)
Returned(r, model, item, id) ==
    returned' = [returned EXCEPT ![r] = Append(@, [model |-> model, item |-> item, id |-> id])]

\* bookkeeping of a call refused by the client for lack of a credential
Refused == faults' = faults /\ unanswered' = TRUE

Log(r, method, model, arg) ==
    calls' = [calls EXCEPT ![r] = Append(@, [method |-> method, model |-> model, arg |-> arg])]

\* the order loop after syncOrder has ended on the current order: count it,
\* then go to the next order or answer with the summary
EndOrder(r, id, tag, threw) ==
    LET sc == IF ~threw /\ SyncOrderResult(tag) = Undefined
              THEN successCount[r] + 1 ELSE successCount[r]
        ec == IF threw THEN errorCount[r] + 1 ELSE errorCount[r]
        last == idx[r] = ordersLength[r]
    IN /\ successCount' = [successCount EXCEPT ![r] = sc]
       /\ errorCount' = [errorCount EXCEPT ![r] = ec]
       /\ idx' = [idx EXCEPT ![r] = @ + 1]
       /\ frame' = [frame EXCEPT ![r] = NoFrame]
       /\ outcomes' = [outcomes EXCEPT ![r] = Append(@, tag)]
       /\ synced' = synced \cup {id}
       /\ pc' = [pc EXCEPT ![r] = IF last THEN "done" ELSE "sync"]
       /\ response' = [response EXCEPT ![r] =
                          IF last THEN Summary(ordersLength[r], sc, ec) ELSE @]

\* syncOrder goes on to its next remote call
Goto(r, label, fr) ==
    /\ pc' = [pc EXCEPT ![r] = label]
    /\ frame' = [frame EXCEPT ![r] = fr]
    /\ UNCHANGED <<idx, successCount, errorCount, response, outcomes, synced>>

\* a new invocation, in the first free isolate (the model follows as many
\* invocations as there are isolates): configuration check, then a fresh
\* OdooClient
Serve(r) ==
    /\ Idle(r)
    /\ \A q \in Runs : q < r => ~Idle(q)
    /\ started < Cardinality(Runs)
    /\ started' = started + 1
    /\ odoo' = [odoo EXCEPT ![r] = NoClient]
    /\ ordersLength' = [ordersLength EXCEPT ![r] = 0]
    /\ orders' = [orders EXCEPT ![r] = << >>]
    /\ idx' = [idx EXCEPT ![r] = 0]
    /\ successCount' = [successCount EXCEPT ![r] = 0]
    /\ errorCount' = [errorCount EXCEPT ![r] = 0]
    /\ frame' = [frame EXCEPT ![r] = NoFrame]
    /\ calls' = [calls EXCEPT ![r] = << >>]
    /\ outcomes' = [outcomes EXCEPT ![r] = << >>]
    /\ sent' = [sent EXCEPT ![r] = {}]
    /\ authAnswer' = [authAnswer EXCEPT ![r] = "none"]
    /\ fetchAnswer' = [fetchAnswer EXCEPT ![r] = "none"]
    /\ repeat' = [repeat EXCEPT ![r] = FALSE]
    /\ returned' = [returned EXCEPT ![r] = << >>]
    /\ IF env.WOO_CK = "" \/ env.WOO_CS = ""
       THEN /\ pc' = [pc EXCEPT ![r] = "done"]
            /\ response' = [response EXCEPT ![r] =
                               TextResponse(500, "Missing WooCommerce credentials")]
       ELSE IF env.ODOO_EMAIL = "" \/ env.ODOO_PASSWORD = ""
       THEN /\ pc' = [pc EXCEPT ![r] = "done"]
            /\ response' = [response EXCEPT ![r] =
                               TextResponse(500, "Missing Odoo credentials")]
       ELSE /\ pc' = [pc EXCEPT ![r] = "auth"]
            /\ response' = [response EXCEPT ![r] = NoResponse]
    /\ UNCHANGED <<env, erp, faults, unanswered, lostSearch, synced, raced>>

\* await odoo.authenticate()
Authenticate(r) ==
    /\ pc[r] = "auth"
    /\ \E data \in AuthResponses :
          /\ authAnswer' = [authAnswer EXCEPT ![r] =
                IF data.kind = "result"
                THEN (IF data.uid # 0 THEN "uid" ELSE "no-uid") ELSE data.kind]
          /\ IF AuthAccepted(data)
             THEN /\ odoo' = [odoo EXCEPT ![r] = Authenticated(@, data)]
                  /\ pc' = [pc EXCEPT ![r] = "fetch"]
                  /\ UNCHANGED response
             ELSE /\ pc' = [pc EXCEPT ![r] = "done"]
                  /\ response' = [response EXCEPT ![r] =
                                     TextResponse(500, "Odoo authentication failed")]
                  /\ UNCHANGED odoo
    /\ sent' = [sent EXCEPT ![r] = @ \cup {"authenticate"}]
    /\ UNCHANGED <<env, erp, ordersLength, orders, idx, successCount, errorCount, frame,
                   fetchAnswer, started, calls, outcomes, faults, unanswered, lostSearch,
                   returned, synced, repeat, raced>>

\* await fetch(.../orders?per_page=20), res.ok, await res.json().  The batch
\* is read-only and its orders do not depend on each other, so the model
\* fixes the batch's length here and draws each order document when the
\* loop reaches it.
FetchOrders(r, maxLen) ==
    /\ pc[r] = "fetch"
    /\ sent' = [sent EXCEPT ![r] = @ \cup {"fetch"}]
    /\ \E res \in FetchOutcomes :
       /\ fetchAnswer' = [fetchAnswer EXCEPT ![r] = res]
       /\ \/ /\ res \in {"exception", "bad-json"}
             /\ pc' = [pc EXCEPT ![r] = "done"]
             /\ response' = [response EXCEPT ![r] = TextResponse(500, "Fatal Error")]
             /\ UNCHANGED <<ordersLength, idx>>
          \/ /\ res = "not-ok"
             /\ pc' = [pc EXCEPT ![r] = "done"]
             /\ response' = [response EXCEPT ![r] = TextResponse(500, "WooCommerce Error")]
             /\ UNCHANGED <<ordersLength, idx>>
          \/ /\ res = "ok"
             /\ \E length \in 0..maxLen :
                   /\ ordersLength' = [ordersLength EXCEPT ![r] = length]
                   /\ IF length = 0
                      THEN /\ pc' = [pc EXCEPT ![r] = "done"]
                           /\ response' = [response EXCEPT ![r] =
                                              TextResponse(200, "No orders to sync")]
                           /\ UNCHANGED idx
                      ELSE /\ pc' = [pc EXCEPT ![r] = "sync"]
                           /\ idx' = [idx EXCEPT ![r] = 1]
                           /\ UNCHANGED response
    /\ UNCHANGED <<env, erp, odoo, orders, successCount, errorCount, frame, started,
                   calls, outcomes, authAnswer, faults, unanswered, lostSearch, returned,
                   synced, repeat, raced>>

\* the loop takes the next order of the batch (the storefront lists orders
\* newest first, each once); syncOrder: the idempotency search on sale.order
IdempotencyCheck(r, maxFaults) ==
    /\ pc[r] = "sync"
    /\ \E id \in NextOrders(orders[r]) :
        LET order == WooStore[id]
            tag == originTag(order.id)
        IN /\ orders' = [orders EXCEPT ![r] = Append(@, id)]
           /\ repeat' = [repeat EXCEPT ![r] = id \in synced]
           /\ returned' = [returned EXCEPT ![r] = << >>]
           /\ IF NotAuthenticated(odoo[r])
              THEN /\ EndOrder(r, id, "exception", TRUE)
                   /\ calls' = [calls EXCEPT ![r] = << >>]
                   /\ Refused
                   /\ lostSearch' = TRUE
                   /\ UNCHANGED <<sent, raced>>
              ELSE \E ans \in Answers(maxFaults) :
                     LET existing == SearchResult(saleOrders, "origin", tag, ans)
                     IN /\ calls' = [calls EXCEPT ![r] =
                              << [method |-> "search", model |-> "sale.order", arg |-> tag] >>]
                        /\ sent' = [sent EXCEPT ![r] = @ \cup {"search"}]
                        /\ Answer(ans)
                        /\ Searched(ans)
                        /\ IF AlreadyImported(existing)
                           THEN /\ EndOrder(r, id, "already", FALSE)
                                /\ UNCHANGED raced
                           ELSE /\ Goto(r, "customer", NoFrame)
                                /\ raced' =
                                     IF /\ Matching(saleOrders, "origin", tag) = 0
                                        /\ \E q \in Runs \ {r} :
                                              /\ pc[q] \in InFlight
                                              /\ orders[q][idx[q]] = id
                                     THEN raced \cup {id} ELSE raced
    /\ UNCHANGED <<env, erp, odoo, ordersLength, started, authAnswer, fetchAnswer>>

\* the gate after the line loop: no order without a surviving line
AfterLoop(r, fr) ==
    IF isEmpty(fr.orderLines)
    THEN EndOrder(r, orders[r][idx[r]], "no-valid-lines", FALSE)
    ELSE Goto(r, "orderCreate", fr)

\* customer resolution followed by the line gates without the customer gate
AfterCustomer_Ungated(r, partnerId) ==
    LET order == WooStore[orders[r][idx[r]]]
        fr == [partnerId |-> partnerId, orderLines |-> << >>, li |-> 1]
    IN /\ Returned(r, "res.partner", 0, partnerId)
       /\ IF NoLineItems(order)
          THEN EndOrder(r, orders[r][idx[r]], "no-line-items", FALSE)
          ELSE Goto(r, "product", fr)

\* what follows customer resolution: the two gates, then the line loop
\* (for...of throws on a missing list and does nothing on an empty one)
AfterCustomer(r, partnerId) ==
    LET order == Order(r)
        fr == [partnerId |-> partnerId, orderLines |-> << >>, li |-> 1]
    IN /\ Returned(r, "res.partner", 0, partnerId)
       /\ IF partnerId = 0 THEN EndOrder(r, orders[r][idx[r]], "no-customer", FALSE)
          ELSE IF NoLineItems(order)
          THEN EndOrder(r, orders[r][idx[r]], "no-line-items", FALSE)
          ELSE IF ~Has(order, "line_items")
          THEN EndOrder(r, orders[r][idx[r]], "type-error", TRUE)
          ELSE IF Len(order.line_items) = 0 THEN AfterLoop(r, fr)
          ELSE Goto(r, "product", fr)

\* getOrCreateCustomer: the search on res.partner
CustomerSearch(r, maxFaults) ==
    /\ pc[r] = "customer"
    /\ LET email == CustomerEmail(Order(r))
       IN IF NotAuthenticated(odoo[r])
          THEN /\ EndOrder(r, orders[r][idx[r]], "exception", TRUE)
               /\ Refused
               /\ lostSearch' = TRUE
               /\ UNCHANGED <<calls, sent, returned>>
          ELSE \E ans \in Answers(maxFaults) :
                 LET existing == SearchResult(partners, "email", email, ans)
                 IN /\ Log(r, "search", "res.partner", email)
                    /\ sent' = [sent EXCEPT ![r] = @ \cup {"search"}]
                    /\ Answer(ans)
                    /\ Searched(ans)
                    /\ IF Len(existing) > 0
                       THEN AfterCustomer(r, existing[1].id)
                       ELSE Goto(r, "customerCreate", NoFrame) /\ UNCHANGED returned
    /\ UNCHANGED <<env, erp, odoo, ordersLength, orders, started, authAnswer,
                   fetchAnswer, repeat, raced>>

\* getOrCreateCustomer: the create on res.partner
CustomerCreate(r, maxFaults) ==
    /\ pc[r] = "customerCreate"
    /\ LET values == CustomerValues(Order(r))
       IN IF NotAuthenticated(odoo[r])
          THEN /\ EndOrder(r, orders[r][idx[r]], "exception", TRUE)
               /\ Refused
               /\ UNCHANGED <<calls, sent, partners, returned>>
          ELSE \E ans \in Answers(maxFaults) :
                 /\ Log(r, "create", "res.partner", values.email)
                 /\ sent' = [sent EXCEPT ![r] = @ \cup {"create"}]
                 /\ Answer(ans)
                 /\ partners' = Created(partners, values, ans)
                 /\ AfterCustomer(r, CreateResult(partners, ans))
    /\ UNCHANGED <<env, products, saleOrders, odoo, ordersLength, orders, started,
                   authAnswer, fetchAnswer, lostSearch, repeat, raced>>

\* a line loop that takes the same item again when it has yielded no row
AfterItem_Retrying(r, orderLines) ==
    IF orderLines = frame[r].orderLines
    THEN Goto(r, "product", frame[r])
    ELSE IF frame[r].li < Len(Order(r).line_items)
    THEN Goto(r, "product", [frame[r] EXCEPT !.orderLines = orderLines, !.li = @ + 1])
    ELSE AfterLoop(r, [frame[r] EXCEPT !.orderLines = orderLines])

\* the line loop after one item: the next item, or the gate after the loop
AfterItem(r, orderLines) ==
    IF frame[r].li < Len(Order(r).line_items)
    THEN Goto(r, "product", [frame[r] EXCEPT !.orderLines = orderLines, !.li = @ + 1])
    ELSE AfterLoop(r, [frame[r] EXCEPT !.orderLines = orderLines])

\* the line loop's body once getOrCreateProduct has returned
AfterProduct(r, item, productId) ==
    /\ Returned(r, "product.product", frame[r].li, productId)
    /\ AfterItem(r, IF productId # 0
                    THEN Append(frame[r].orderLines, <<0, 0, LineData(item, productId)>>)
                    ELSE frame[r].orderLines)

\* getOrCreateProduct: the fallback code and the search on product.product
ProductSearch(r, maxFaults) ==
    /\ pc[r] = "product"
    /\ LET item == Order(r).line_items[frame[r].li]
       IN IF SkuThrows(item)
          THEN /\ EndOrder(r, orders[r][idx[r]], "type-error", TRUE)
               /\ UNCHANGED <<calls, sent, faults, unanswered, lostSearch, returned>>
          ELSE IF NotAuthenticated(odoo[r])
          THEN /\ EndOrder(r, orders[r][idx[r]], "exception", TRUE)
               /\ Refused
               /\ lostSearch' = TRUE
               /\ UNCHANGED <<calls, sent, returned>>
          ELSE \E ans \in Answers(maxFaults) :
                 LET sku == ProductSku(item)
                     existing == SearchResult(products, "default_code", sku, ans)
                 IN /\ Log(r, "search", "product.product", sku)
                    /\ sent' = [sent EXCEPT ![r] = @ \cup {"search"}]
                    /\ Answer(ans)
                    /\ Searched(ans)
                    /\ IF Len(existing) > 0
                       THEN AfterProduct(r, item, existing[1].id)
                       ELSE Goto(r, "productCreate", frame[r]) /\ UNCHANGED returned
    /\ UNCHANGED <<env, erp, odoo, ordersLength, orders, started, authAnswer,
                   fetchAnswer, repeat, raced>>

\* getOrCreateProduct: the create on product.product
ProductCreate(r, maxFaults) ==
    /\ pc[r] = "productCreate"
    /\ LET item == Order(r).line_items[frame[r].li]
           values == ProductValues(item)
       IN IF NotAuthenticated(odoo[r])
          THEN /\ EndOrder(r, orders[r][idx[r]], "exception", TRUE)
               /\ Refused
               /\ UNCHANGED <<calls, sent, products, returned>>
          ELSE \E ans \in Answers(maxFaults) :
                 /\ Log(r, "create", "product.product", values.default_code)
                 /\ sent' = [sent EXCEPT ![r] = @ \cup {"create"}]
                 /\ Answer(ans)
                 /\ products' = Created(products, values, ans)
                 /\ AfterProduct(r, item, CreateResult(products, ans))
    /\ UNCHANGED <<env, partners, saleOrders, odoo, ordersLength, orders, started,
                   authAnswer, fetchAnswer, lostSearch, repeat, raced>>

\* syncOrder: the create on sale.order
OrderCreate(r, maxFaults) ==
    /\ pc[r] = "orderCreate"
    /\ LET values == OrderValues(Order(r), frame[r].partnerId, frame[r].orderLines)
       IN IF NotAuthenticated(odoo[r])
          THEN /\ EndOrder(r, orders[r][idx[r]], "exception", TRUE)
               /\ Refused
               /\ UNCHANGED <<calls, sent, saleOrders>>
          ELSE \E ans \in Answers(maxFaults) :
                 /\ Log(r, "create", "sale.order", values.origin)
                 /\ sent' = [sent EXCEPT ![r] = @ \cup {"create"}]
                 /\ Answer(ans)
                 /\ saleOrders' = Created(saleOrders, values, ans)
                 /\ EndOrder(r, orders[r][idx[r]], IF CreateResult(saleOrders, ans) # 0
                                THEN "created" ELSE "create-failed", FALSE)
    /\ UNCHANGED <<env, partners, products, odoo, ordersLength, orders, started,
                   authAnswer, fetchAnswer, lostSearch, returned, repeat, raced>>

\* the steps of an invocation once it has started
Step(r, maxLen, maxFaults) ==
    \/ Authenticate(r)
    \/ FetchOrders(r, maxLen)
    \/ IdempotencyCheck(r, maxFaults)
    \/ CustomerSearch(r, maxFaults)
    \/ CustomerCreate(r, maxFaults)
    \/ ProductSearch(r, maxFaults)
    \/ ProductCreate(r, maxFaults)
    \/ OrderCreate(r, maxFaults)

\* the scheduler starts an invocation only when none is in flight
ServeAlone(r) == (\A q \in Runs : Idle(q)) /\ Serve(r)

Next == \E r \in Runs : ServeAlone(r) \/ Step(r, MaxBatch, MaxFaults)

Spec == Init /\ [][Next]_vars

\* invocations may overlap: nothing in the handler coordinates them
OverlapNext == \E r \in Runs : Serve(r) \/ Step(r, MaxOverlapBatch, MaxOverlapFaults)

OverlapSpec == Init /\ [][OverlapNext]_vars

(***************************************************************************)
(* OdooClient on its own: its three methods called in any order on the     *)
(* objects of Runs, res.partner standing for the model searched and        *)
(* created.  pc names the method called last, outcomes logs how each call  *)
(* ended and calls logs the search and create requests that were sent.     *)
(***************************************************************************)
ClientCalls == Len(outcomes[1]) + Len(outcomes[2])

ClientEmails == {CustomerEmail(WooStore[id]) : id \in {501, 502}}

Called(c, method, how) ==
    /\ ClientCalls < MaxClientCalls
    /\ pc' = [pc EXCEPT ![c] = method]
    /\ outcomes' = [outcomes EXCEPT ![c] = Append(@, how)]

ClientIdle ==
    UNCHANGED <<env, products, saleOrders, ordersLength, orders, idx, successCount,
                errorCount, frame, response, started, fetchAnswer, faults, unanswered,
                lostSearch, returned, synced, repeat, raced>>

ClientAuthenticate(c) ==
    /\ \E data \in AuthResponses :
          /\ authAnswer' = [authAnswer EXCEPT ![c] =
                IF data.kind = "result"
                THEN (IF data.uid # 0 THEN "uid" ELSE "no-uid") ELSE data.kind]
          /\ IF AuthAccepted(data)
             THEN /\ odoo' = [odoo EXCEPT ![c] = Authenticated(@, data)]
                  /\ Called(c, "authenticate", "true")
             ELSE /\ UNCHANGED odoo
                  /\ Called(c, "authenticate", "throw")
    /\ sent' = [sent EXCEPT ![c] = @ \cup {"authenticate"}]
    /\ UNCHANGED <<partners, calls>>
    /\ ClientIdle

ClientSearch(c) ==
    /\ \E email \in ClientEmails :
          IF NotAuthenticated(odoo[c])
          THEN /\ Called(c, "search", "NotAuthenticated")
               /\ UNCHANGED <<calls, sent>>
          ELSE \E ans \in RpcOutcomes :
                 /\ Log(c, "search", "res.partner", email)
                 /\ sent' = [sent EXCEPT ![c] = @ \cup {"search"}]
                 /\ Called(c, "search",
                           IF Len(SearchResult(partners, "email", email, ans)) > 0
                           THEN "found" ELSE "empty")
    /\ UNCHANGED <<partners, odoo, authAnswer>>
    /\ ClientIdle

ClientCreate(c) ==
    /\ \E id \in {501, 502} :
          LET values == CustomerValues(WooStore[id])
          IN IF NotAuthenticated(odoo[c])
             THEN /\ Called(c, "create", "NotAuthenticated")
                  /\ UNCHANGED <<calls, sent, partners>>
             ELSE \E ans \in RpcOutcomes :
                    /\ Log(c, "create", "res.partner", values.email)
                    /\ sent' = [sent EXCEPT ![c] = @ \cup {"create"}]
                    /\ partners' = Created(partners, values, ans)
                    /\ Called(c, "create",
                              IF CreateResult(partners, ans) # 0 THEN "id" ELSE "null")
    /\ UNCHANGED <<odoo, authAnswer>>
    /\ ClientIdle

ClientNext == \E c \in Runs : ClientAuthenticate(c) \/ ClientSearch(c) \/ ClientCreate(c)

ClientSpec == Init /\ [][ClientNext]_vars

(***************************************************************************)
(* Vocabulary of the properties.                                           *)
(***************************************************************************)
\* the idempotency key of an external order id, as the documentation has it
KeyOf(id) == "WC-" \o ToString(id)

\* ERP sales orders that carry the idempotency key of an order id
KeyCount(id) == Matching(saleOrders, "origin", KeyOf(id))

\* syncOrder has just ended on an order of invocation r, whose calls are in
\* calls[r]
Ended(r) == pc[r] \in {"sync", "done"} /\ Len(outcomes[r]) >= 1
LastId(r) == orders[r][Len(outcomes[r])]
LastOutcome(r) == outcomes[r][Len(outcomes[r])]

CallsOf(r, method, model) ==
    Cardinality({i \in 1..Len(calls[r]) :
                    calls[r][i].method = method /\ calls[r][i].model = model})
Creates(r) ==
    Cardinality({i \in 1..Len(calls[r]) : calls[r][i].method = "create"})

\* an order the protocol can import: it has a line item and the fallback
\* code of every line item can be computed
Importable(order) ==
    /\ Has(order, "line_items")
    /\ Len(order.line_items) > 0
    /\ \A i \in 1..Len(order.line_items) : ~SkuThrows(order.line_items[i])

\* syncOrder has just ended on an order it had already been run on, and the
\* ERP has answered every call so far
SecondRun(r) == Ended(r) /\ repeat[r] /\ ~unanswered

(***************************************************************************)
(* C1 as stated: two runs of syncOrder on the same order against an ERP    *)
(* that answers every call leave exactly one sales order with the key, and *)
(* the second run stops at the idempotency check without any create.       *)
(***************************************************************************)
C1_ExactlyOneOrder ==
    \A r \in Runs :
        SecondRun(r) =>
            /\ KeyCount(LastId(r)) = 1
            /\ LastOutcome(r) = "already"
            /\ Creates(r) = 0

(***************************************************************************)
(* C1 amended: the second run issues no create call; at most one sales     *)
(* order carries the key, exactly one when the order is importable (it has *)
(* a line item and every line item has a code, a product reference or a    *)
(* name) and none otherwise; when there is one, the second run stopped at  *)
(* the idempotency check.                                                  *)
(***************************************************************************)
C1_SecondRunCreatesNothing ==
    \A r \in Runs :
        SecondRun(r) =>
            /\ Creates(r) = 0
            /\ KeyCount(LastId(r)) = (IF Importable(WooStore[LastId(r)]) THEN 1 ELSE 0)
            /\ KeyCount(LastId(r)) = 1 =>
                  /\ LastOutcome(r) = "already"
                  /\ Len(calls[r]) = 1

C1_Witness ==
    \E r \in Runs :
        /\ SecondRun(r)
        /\ started = 2
        /\ LastOutcome(r) = "already"
        /\ KeyCount(LastId(r)) = 1

(***************************************************************************)
(* C2: in non-overlapping runs, whatever searches or creates fail, at most *)
(* one ERP sales order carries the idempotency key of an order id.         *)
(***************************************************************************)
C2_AtMostOneOrderPerKey == \A id \in OrderIds : KeyCount(id) <= 1

(***************************************************************************)
(* C3: overlapping runs.  When two invocations have both passed the        *)
(* idempotency search for the same order before either has created it,     *)
(* both go on to create it: once syncOrder has ended on it in both, with   *)
(* every call answered, two sales orders carry the order's key.            *)
(***************************************************************************)
EndedOn(r, id) == \E i \in 1..Len(outcomes[r]) : orders[r][i] = id

C3_RaceLeavesDuplicate ==
    \A id \in raced :
        /\ KeyCount(id) <= 2
        /\ ((\A r \in Runs : EndedOn(r, id)) /\ ~unanswered /\ Importable(WooStore[id]))
              => KeyCount(id) = 2

C3_Witness ==
    \E id \in raced : KeyCount(id) = 2 /\ \A r \in Runs : EndedOn(r, id)

(***************************************************************************)
(* Counts of the outcomes of the orders an invocation has gone through.    *)
(***************************************************************************)
Imported == {"created", "already"}
CountOf(r, tags) == Cardinality({i \in 1..Len(outcomes[r]) : outcomes[r][i] \in tags})
CountNot(r, tags) == Cardinality({i \in 1..Len(outcomes[r]) : outcomes[r][i] \notin tags})

IsSummary(resp) == resp.status = 200 /\ resp.contentType = "application/json"
Summarised(r) == pc[r] = "done" /\ IsSummary(response[r])

C5_ProcessedCountsImports ==
    \A r \in Runs :
        Summarised(r) => response[r].body.processed = CountOf(r, Imported)

(***************************************************************************)
(* C6: an order with zero line items (line_items missing or empty) never   *)
(* reaches the sale-order create, whatever the ERP answers before.         *)
(***************************************************************************)
ZeroLineItems(order) == ~Has(order, "line_items") \/ Len(order.line_items) = 0

\* the order the calls in calls[r] were issued for
CallsId(r) == orders[r][Len(orders[r])]

C6_NoLineItemsNoOrderCreate ==
    /\ \A id \in OrderIds : ZeroLineItems(WooStore[id]) => KeyCount(id) = 0
    /\ \A r \in Runs :
          (Len(orders[r]) > 0 /\ ZeroLineItems(WooStore[CallsId(r)]))
             => /\ pc[r] # "orderCreate"
                /\ CallsOf(r, "create", "sale.order") = 0

\* an invocation went through an order without line_items, then through one
\* with an empty list, past customer resolution both times
C6_Witness ==
    \E r \in Runs :
        /\ Ended(r)
        /\ outcomes[r] = <<"no-line-items", "no-line-items">>
        /\ ~Has(WooStore[orders[r][1]], "line_items")
        /\ Has(WooStore[orders[r][2]], "line_items")

(***************************************************************************)
(* C7: once authentication and the fetch have succeeded, every order of    *)
(* the batch is processed once, a failure or exception on an order is      *)
(* counted as an error for it, and the run ends with the summary.          *)
(***************************************************************************)
C7_FailuresAreErrors ==
    \A r \in Runs :
        (pc[r] = "done" /\ fetchAnswer[r] = "ok" /\ ordersLength[r] > 0) =>
            /\ IsSummary(response[r])
            /\ Len(outcomes[r]) = ordersLength[r]
            /\ response[r].body.errors = CountNot(r, Imported)

(***************************************************************************)
(* C8: when ERP authentication fails the run answers with a failure and    *)
(* has sent nothing but the login request: no source fetch, no ERP search  *)
(* or create, no summary.                                                  *)
(***************************************************************************)
AuthFailed(r) == authAnswer[r] \in {"exception", "error", "no-uid"}

C8_AuthFailureAborts ==
    \A r \in Runs :
        AuthFailed(r) =>
            /\ pc[r] = "done"
            /\ sent[r] = {"authenticate"}
            /\ fetchAnswer[r] = "none"
            /\ calls[r] = << >> /\ outcomes[r] = << >>
            /\ response[r].status = 500
            /\ response[r].contentType # "application/json"

C8_Witness ==
    \E r \in Runs : authAnswer[r] = "error" /\ pc[r] = "done" /\ started = 2

C10_DefaultsNeverFail ==
    \A r \in Runs :
        \A i \in 1..Len(outcomes[r]) : outcomes[r][i] # "type-error"

(***************************************************************************)
(* C11: search and create called on a client on which no authenticate has  *)
(* succeeded yet (its uid is still unset) fail with the NotAuthenticated   *)
(* error, send no request to the ERP and leave the client and the ERP as   *)
(* they were.                                                              *)
(***************************************************************************)
LastCall(c) == outcomes'[c][Len(outcomes'[c])]

C11_RefusedBeforeAuthenticate ==
    [][\A c \in Runs :
          (odoo[c].uid = 0 /\ outcomes'[c] # outcomes[c] /\ pc'[c] \in {"search", "create"})
             => /\ LastCall(c) = "NotAuthenticated"
                /\ sent'[c] = sent[c]
                /\ calls' = calls
                /\ odoo' = odoo
                /\ erp' = erp]_vars

\* a create refused on a client whose only authenticate so far has thrown
C11_Witness ==
    \E c \in Runs :
        /\ odoo[c] = NoClient
        /\ pc[c] = "create"
        /\ outcomes[c] = <<"throw", "NotAuthenticated">>
        /\ sent[c] = {"authenticate"}

(***************************************************************************)
(* C12: no step deletes or modifies an ERP record: every customer, product *)
(* and sales order keeps its id and its field values, and a step changes   *)
(* the ERP at most by adding one new record at the end of one table.       *)
(***************************************************************************)
IsPrefix(s, t) == Len(s) <= Len(t) /\ SubSeq(t, 1, Len(s)) = s

C12_OnlyAddsRecords ==
    [][/\ IsPrefix(partners, partners')
       /\ IsPrefix(products, products')
       /\ IsPrefix(saleOrders, saleOrders')
       /\ Len(partners') + Len(products') + Len(saleOrders')
             <= Len(partners) + Len(products) + Len(saleOrders) + 1]_vars

\* an order was imported for a customer that was found, not created, while
\* the ERP already held records of every kind
C12_Witness ==
    \E r \in Runs :
        /\ Ended(r) /\ LastOutcome(r) = "created"
        /\ CallsOf(r, "search", "res.partner") = 1
        /\ CallsOf(r, "create", "res.partner") = 0
        /\ Len(partners) >= 1 /\ Len(products) >= 2 /\ Len(saleOrders) >= 2

(***************************************************************************)
(* C13: get-or-create creates a record only if none with the natural key   *)
(* exists.  As long as every search has been answered, the ERP holds at    *)
(* most one customer per email and one product per stock-keeping code;     *)
(* and when an order is imported with every call answered, two of its line *)
(* items that share a code cause at most one product create and their rows *)
(* carry the same product id.                                              *)
(***************************************************************************)
Unique(table, field) ==
    \A i, j \in 1..Len(table) : table[i][field] = table[j][field] => i = j

CreatesFor(r, model, key) ==
    Cardinality({i \in 1..Len(calls[r]) :
                    calls[r][i] = [method |-> "create", model |-> model, arg |-> key]})

\* invocation r has just created the newest sales order, every call answered
JustImported(r) == Ended(r) /\ LastOutcome(r) = "created" /\ ~unanswered

NewestRows == saleOrders[Len(saleOrders)].order_line

C13_CreateOnlyIfAbsent ==
    /\ ~lostSearch => Unique(partners, "email") /\ Unique(products, "default_code")
    /\ \A r \in Runs :
          JustImported(r) =>
             LET items == WooStore[LastId(r)].line_items
             IN \A i, j \in 1..Len(items) :
                   ProductSku(items[i]) = ProductSku(items[j]) =>
                      /\ NewestRows[i][3].product_id = NewestRows[j][3].product_id
                      /\ CreatesFor(r, "product.product", ProductSku(items[i])) <= 1

\* order 502, whose two line items fall back on the same code, has been
\* imported: one product create, two product searches, one product id
C13_Witness ==
    \E r \in Runs :
        /\ JustImported(r) /\ LastId(r) = 502
        /\ CallsOf(r, "search", "product.product") = 2
        /\ CallsOf(r, "create", "product.product") = 1
        /\ Len(NewestRows) = 2
        /\ NewestRows[1][3].product_id = NewestRows[2][3].product_id

(***************************************************************************)
(* What getOrCreateProduct has returned for the line items of the current  *)
(* order, and the rows these results call for.                             *)
(***************************************************************************)
IsProduct(e) == e.model = "product.product"
IsSurvivor(e) == e.model = "product.product" /\ e.id # 0
ProductReturns(r) == SelectSeq(returned[r], IsProduct)
Survivors(r) == SelectSeq(returned[r], IsSurvivor)

ExpectedRows(r) ==
    LET items == WooStore[CallsId(r)].line_items
        surv == Survivors(r)
    IN [k \in 1..Len(surv) |-> <<0, 0, LineData(items[surv[k].item], surv[k].id)>>]

(***************************************************************************)
(* C14: a line whose product resolution fails is dropped without aborting  *)
(* the order: once syncOrder has ended on an order, the sale-order create  *)
(* was issued if and only if product resolution returned an id for at      *)
(* least one line item, and the rows it is issued with are those of the    *)
(* resolved line items, one each, in source order.                         *)
(***************************************************************************)
C14_SurvivingLinesMakeTheOrder ==
    \A r \in Runs :
        /\ pc[r] = "orderCreate" => frame[r].orderLines = ExpectedRows(r)
        /\ Ended(r) =>
              (CallsOf(r, "create", "sale.order") = 1 <=> Len(Survivors(r)) >= 1)

(***************************************************************************)
(* C15: when customer resolution yields no id for an order, processing of  *)
(* that order stops there: no product search or create and no sale-order   *)
(* create is issued for it.                                                *)
(***************************************************************************)
NoCustomerId(r) ==
    \E i \in 1..Len(returned[r]) : returned[r][i].model = "res.partner" /\ returned[r][i].id = 0

C15_NoCustomerStopsOrder ==
    \A r \in Runs :
        NoCustomerId(r) =>
            /\ Ended(r)
            /\ LastOutcome(r) = "no-customer"
            /\ CallsOf(r, "search", "product.product") = 0
            /\ CallsOf(r, "create", "product.product") = 0
            /\ CallsOf(r, "create", "sale.order") = 0
            /\ returned[r] = <<[model |-> "res.partner", item |-> 0, id |-> 0]>>

\* the customer create of an order that has line items has failed
C15_Witness ==
    \E r \in Runs :
        /\ NoCustomerId(r)
        /\ Importable(WooStore[CallsId(r)])
        /\ CallsOf(r, "create", "res.partner") = 1
        /\ pc[r] = "done"

(***************************************************************************)
(* C16: no remote call is retried.  Within one run authenticate is called  *)
(* once and the credential it left is never acquired again; for each order *)
(* there is at most one idempotency search, one customer search, one       *)
(* customer create and one sale-order create, and for each line item at    *)
(* most one product search and one product create, whatever the calls'     *)
(* outcomes.                                                               *)
(***************************************************************************)
\* line items of the current order whose product resolution has begun
ItemsBegun(r) ==
    IF pc[r] = "product" THEN frame[r].li - 1
    ELSE IF pc[r] = "productCreate" THEN frame[r].li
    ELSE IF Has(WooStore[CallsId(r)], "line_items")
    THEN Len(WooStore[CallsId(r)].line_items) ELSE 0

OncePerStep(r) ==
    /\ CallsOf(r, "search", "sale.order") <= 1
    /\ CallsOf(r, "search", "res.partner") <= 1
    /\ CallsOf(r, "create", "res.partner") <= 1
    /\ CallsOf(r, "create", "sale.order") <= 1
    /\ CallsOf(r, "search", "product.product") <= ItemsBegun(r)
    /\ CallsOf(r, "create", "product.product") <= CallsOf(r, "search", "product.product")
    /\ pc[r] \in {"product", "productCreate"} =>
          CallsOf(r, "search", "product.product") = ItemsBegun(r)
    /\ pc[r] = "productCreate" =>
          CallsOf(r, "create", "product.product") < ItemsBegun(r)

C16_NoRetry ==
    /\ [](\A r \in Runs : Len(orders[r]) > 0 => OncePerStep(r))
    /\ [][\A r \in Runs :
            /\ (pc[r] = "auth" /\ pc'[r] # "auth") => authAnswer[r] = "none"
            /\ (pc[r] \notin {"idle", "auth", "done"}) => odoo'[r] = odoo[r]]_vars

\* order 502 has gone through both its line items after the product create
\* of the first one had failed
C16_Witness ==
    \E r \in Runs :
        /\ Ended(r) /\ LastId(r) = 502 /\ faults = 1
        /\ CallsOf(r, "search", "product.product") = 2
        /\ CallsOf(r, "create", "product.product") = 2
        /\ LastOutcome(r) = "created"

(***************************************************************************)
(* C17: whenever authenticate reports success a session credential has     *)
(* been captured, so that no search or create issued afterwards fails with *)
(* NotAuthenticated.                                                       *)
(***************************************************************************)
C17_CredentialCaptured ==
    \A r \in Runs :
        (authAnswer[r] = "uid" /\ pc[r] # "auth") =>
            /\ ~NotAuthenticated(odoo[r])
            /\ \A i \in 1..Len(outcomes[r]) : outcomes[r][i] # "exception"

(***************************************************************************)
(* C18: in every JSON run summary processed + errors = total: each order   *)
(* of the batch is counted exactly once, as processed or as an error.      *)
(***************************************************************************)
C18_CountsAddUp ==
    \A r \in Runs :
        /\ successCount[r] + errorCount[r] = Len(outcomes[r])
        /\ Summarised(r) =>
              /\ response[r].body.processed + response[r].body.errors
                    = response[r].body.total
              /\ response[r].body.total = Len(outcomes[r])
              /\ response[r].body.errors = CountOf(r, {"exception", "type-error"})

\* a summary of two orders, one processed and one ended by an exception
C18_Witness ==
    \E r \in Runs :
        /\ Summarised(r)
        /\ response[r].body.total = 2
        /\ response[r].body.processed = 1
        /\ response[r].body.errors = 1

(***************************************************************************)
(* C19: every sale-order create call carries a customer id and, in each    *)
(* order-line row, a product id that the ERP returned from a search or a   *)
(* create earlier in the processing of the same order; it carries at least *)
(* one row, the status "draft", the provenance key "WC-<id>" and the       *)
(* reference equal to the order's external id.                             *)
(***************************************************************************)
ReturnedId(r, model, id) ==
    id # 0 /\ \E i \in 1..Len(returned[r]) :
                 returned[r][i].model = model /\ returned[r][i].id = id

WellFormedCall(r) ==
    LET id == orders[r][idx[r]]
        values == OrderValues(WooStore[id], frame[r].partnerId, frame[r].orderLines)
    IN /\ ReturnedId(r, "res.partner", values.partner_id)
       /\ values.partner_id \in 1..Len(partners)
       /\ Len(values.order_line) >= 1
       /\ \A k \in 1..Len(values.order_line) :
             /\ ReturnedId(r, "product.product", values.order_line[k][3].product_id)
             /\ values.order_line[k][3].product_id \in 1..Len(products)
       /\ values.state = "draft"
       /\ values.origin = KeyOf(id)
       /\ values.client_order_ref = ToString(id)

C19_OrderCreateWellFormed ==
    /\ \A r \in Runs : pc[r] = "orderCreate" => WellFormedCall(r)
    /\ \A n \in 1..Len(saleOrders) :
          /\ saleOrders[n].state = "draft"
          /\ saleOrders[n].origin = "WC-" \o saleOrders[n].client_order_ref
          /\ Len(saleOrders[n].order_line) >= 1
          /\ saleOrders[n].partner_id \in 1..Len(partners)
          /\ \A k \in 1..Len(saleOrders[n].order_line) :
                saleOrders[n].order_line[k][3].product_id \in 1..Len(products)

\* order 502 has been created with the one line that survived, for a
\* customer that was created for it
C19_Witness ==
    \E r \in Runs :
        /\ Ended(r) /\ LastOutcome(r) = "created" /\ LastId(r) = 502
        /\ CallsOf(r, "create", "res.partner") = 1
        /\ Len(Survivors(r)) = 1
        /\ Len(NewestRows) = 1
        /\ NewestRows[1][3].product_id = Survivors(r)[1].id

(***************************************************************************)
(* C20: records created by earlier steps of an order persist when the      *)
(* order is aborted later.  An order with zero line items, every call      *)
(* answered, ends at the line presence check with its customer in the ERP  *)
(* (created if no customer had its email) and without a sales order; and   *)
(* when the sale-order create fails, the customer and the products         *)
(* resolved for the order's lines are in the ERP.                          *)
(***************************************************************************)
HasCustomerOf(order) == Matching(partners, "email", CustomerEmail(order)) >= 1

C20_EarlierRecordsPersist ==
    \A r \in Runs :
        Ended(r) =>
            LET order == WooStore[LastId(r)]
            IN /\ (ZeroLineItems(order) /\ ~unanswered) =>
                     /\ LastOutcome(r) = "no-line-items"
                     /\ HasCustomerOf(order)
                     /\ KeyCount(LastId(r)) = 0
               /\ LastOutcome(r) \in {"no-line-items", "no-valid-lines", "create-failed"} =>
                     /\ returned[r][1].id \in 1..Len(partners)
                     /\ partners[returned[r][1].id].email = CustomerEmail(order)
               /\ LastOutcome(r) = "create-failed" =>
                     \A k \in 1..Len(Survivors(r)) :
                        /\ Survivors(r)[k].id \in 1..Len(products)
                        /\ products[Survivors(r)[k].id].default_code
                              = ProductSku(order.line_items[Survivors(r)[k].item])

\* a batch of order 503 (no line items, no customer with its email) and
\* order 501 (its sale-order create fails): two customers and a product
\* were created, no sales order
C20_Witness ==
    \E r \in Runs :
        /\ pc[r] = "done"
        /\ orders[r] = <<503, 501>>
        /\ outcomes[r] = <<"no-line-items", "create-failed">>
        /\ Len(partners) = 2 /\ Len(products) = 1 /\ saleOrders = << >>
        /\ CallsOf(r, "create", "product.product") = 1
=============================================================================
